---------------------------- MODULE Spec2Model ----------------------------
(***************************************************************************)
(* CloudCop AI service: the summarization servicer and its completion      *)
(* client (backend/ai/app/services/summarization.py).                      *)
(*                                                                         *)
(* Two specifications share the definitions below.                         *)
(*   Spec        one SummarizeFindings request: the findings are grouped,  *)
(*               one task per group is submitted to a pool of 3 workers,   *)
(*               each task runs _process_group (with the provider calls    *)
(*               and the backoff sleeps of _call_llm as separate steps),   *)
(*               the request thread collects the futures as they complete  *)
(*               and builds the response.                                  *)
(*   SpecClient  one direct call of LLMClient.summarize_issues or          *)
(*               LLMClient.generate_commands, with every provider outcome  *)
(*               (two kinds of error, every response text of the           *)
(*               alphabets below, every jitter of the grid).               *)
(*                                                                         *)
(* Texts are TLA+ strings.  A provider response is a sequence of text      *)
(* pieces, so that the fence handling (str.split) and str.strip are        *)
(* computed on it; the two markdown fences are the pieces FENCE_JSON       *)
(* (three backquotes followed by json) and FENCE (three backquotes).       *)
(* Time is counted in ticks of 1/JitterSteps second.                       *)
(***************************************************************************)
EXTENDS Integers, Sequences, FiniteSets, TLC

VARIABLES
    client,               \* LLMClient.client is set (OPENAI_API_KEY given)
    models,               \* LLMClient.models
    findings,             \* request.findings
    include_remediation,  \* request.options.include_remediation
    submitted,            \* number of tasks handed to the executor so far
    task,                 \* the executor's work items / futures, by submit index
    finding_groups,       \* SummarizeFindings: local list finding_groups
    action_items,         \* SummarizeFindings: local list action_items
    response,             \* <<>> until SummarizeFindings returns, then <<response>>
    direct,               \* SpecClient: the direct caller's invocation
    errors_left           \* provider calls that may still fail in this run

vars == <<client, models, findings, include_remediation, submitted, task,
          finding_groups, action_items, response, direct, errors_left>>

----------------------------------------------------------------------------
(* Bounds of the model *)

\* longest finding list of a request
MaxFindings == 4
\* Spec: provider calls that fail during one request
MaxProviderErrors == 1
\* SpecClient: longest snippet list and resource-id list of a direct call
MaxSnippets == 2
MaxResources == 4
\* random.uniform(0, 1) is sampled on the grid k/JitterSteps, k in 0..JitterSteps
JitterSteps == 1
\* the findings of a report request drawn from the pool, and the failing and
\* passing members of a uniform group
MaxReportFindings == 3
MaxFailing == 7
MaxPassing == 1

(* Program constants *)

max_retries == 6
base_delay == 2
max_workers == 3
max_snippets == 20
max_fallback_buckets == 3

Min(a, b) == IF a <= b THEN a ELSE b

RECURSIVE Pow2(_)
Pow2(n) == IF n = 0 THEN 1 ELSE 2 * Pow2(n - 1)

\* seq[:n]
Take(seq, n) == SubSeq(seq, 1, Min(Len(seq), n))

\* the elements of a sequence
Range(seq) == {seq[i] : i \in 1..Len(seq)}

----------------------------------------------------------------------------
(* LLMClient.__init__ *)

DefaultModel == "z-ai/glm-4.5-air:free"
alternatives == <<"moonshotai/moonshot-v1-8k:free", "openai/gpt-oss-120b:free">>

\* the values of OPENAI_MODEL the model draws from: unset (the default), one
\* of the built-in alternatives, or a model of the operator's own
PrimaryModels == {DefaultModel, alternatives[1], alternatives[2], "custom/model"}

\* self.models: the primary, then every alternative that differs from it
LLMClient_models(primary_model) ==
    <<primary_model>> \o SelectSeq(alternatives, LAMBDA alt : alt # primary_model)

----------------------------------------------------------------------------
(* The provider: errors and response texts *)

\* str(e) of the two kinds of provider error: a rate limit, and any other
ERR_RATE_LIMIT == "Error code: 429 - rate limited"
ERR_TIMEOUT == "Request timed out."
ErrorMessages == {ERR_RATE_LIMIT, ERR_TIMEOUT}

\* "429" in error_msg
IsRateLimit(error_msg) == error_msg = ERR_RATE_LIMIT

FENCE_JSON == "<fence:json>"
FENCE == "<fence>"

\* whitespace pieces, removed at both ends by str.strip
Whitespace == {"\n", " "}

J_FULL == "{\"summary\": \"S\", \"remedy\": \"R\"}"
J_NO_REMEDY == "{\"summary\": \"S\"}"
J_NO_SUMMARY == "{\"remedy\": \"R\"}"
J_EMPTY_OBJECT == "{}"
J_ARRAY == "[\"aws s3api get-bucket-acl --bucket b1\"]"
J_NUMBER_SUMMARY == "{\"summary\": 5, \"remedy\": \"R\"}"
J_COMMANDS == "{\"commands\": [\"aws s3api get-bucket-acl --bucket b1\", \"\"]}"
J_COMMANDS_NULL == "{\"commands\": null}"
T_PROSE == "The buckets are not encrypted."

\* Python values read out of a parsed response
PyStr(s) == [t |-> "str", s |-> s, items |-> <<>>]
PyNum(s) == [t |-> "num", s |-> s, items |-> <<>>]
PyList(items) == [t |-> "list", s |-> "", items |-> items]
PyNone == [t |-> "none", s |-> "", items |-> <<>>]
Absent == [t |-> "absent", s |-> "", items |-> <<>>]

JsonObject(summary, remedy, commands) ==
    [type |-> "object", summary |-> summary, remedy |-> remedy, commands |-> commands]
JsonArray == [type |-> "array", summary |-> Absent, remedy |-> Absent, commands |-> Absent]
JsonInvalid == [type |-> "invalid", summary |-> Absent, remedy |-> Absent, commands |-> Absent]

\* json.loads on the texts of the alphabet; every other text built from the
\* pieces (the empty text, prose, two values side by side) is no JSON value
json_loads(text) ==
    CASE text = J_FULL -> JsonObject(PyStr("S"), PyStr("R"), Absent)
      [] text = J_NO_REMEDY -> JsonObject(PyStr("S"), Absent, Absent)
      [] text = J_NO_SUMMARY -> JsonObject(Absent, PyStr("R"), Absent)
      [] text = J_EMPTY_OBJECT -> JsonObject(Absent, Absent, Absent)
      [] text = J_NUMBER_SUMMARY -> JsonObject(PyNum("5"), PyStr("R"), Absent)
      [] text = J_COMMANDS ->
            JsonObject(Absent, Absent,
                       PyList(<<"aws s3api get-bucket-acl --bucket b1", "">>))
      [] text = J_COMMANDS_NULL -> JsonObject(Absent, Absent, PyNone)
      [] text = J_ARRAY -> JsonArray
      [] OTHER -> JsonInvalid

\* "".join(pieces)
RECURSIVE Join(_)
Join(pieces) == IF pieces = <<>> THEN "" ELSE Head(pieces) \o Join(Tail(pieces))

\* str.strip on a sequence of pieces
RECURSIVE StripLeft(_)
StripLeft(pieces) ==
    IF pieces # <<>> /\ Head(pieces) \in Whitespace THEN StripLeft(Tail(pieces))
    ELSE pieces
RECURSIVE StripRight(_)
StripRight(pieces) ==
    IF pieces # <<>> /\ pieces[Len(pieces)] \in Whitespace
    THEN StripRight(SubSeq(pieces, 1, Len(pieces) - 1))
    ELSE pieces
Strip(pieces) == StripRight(StripLeft(pieces))

\* the index of the first piece of `pieces` that is in `seps`, from index
\* `from` on; Len(pieces) + 1 when there is none
RECURSIVE FindFrom(_, _, _)
FindFrom(pieces, seps, from) ==
    IF from > Len(pieces) THEN Len(pieces) + 1
    ELSE IF pieces[from] \in seps THEN from
    ELSE FindFrom(pieces, seps, from + 1)

\* content.split(sep)[1]: what lies between the first and the second piece of
\* `seps` (or the end)
SplitSecond(pieces, seps) ==
    LET i == FindFrom(pieces, seps, 1)
        j == FindFrom(pieces, seps, i + 1)
    IN  SubSeq(pieces, i + 1, j - 1)

\* content.split(sep)[0]
SplitFirst(pieces, seps) == SubSeq(pieces, 1, FindFrom(pieces, seps, 1) - 1)

\* The markdown handling of both parsers.  The text of FENCE is a prefix of
\* the text of FENCE_JSON, so "```" in content and split("```") see both.
StripCodeFence(content) ==
    IF FENCE_JSON \in Range(content)
    THEN SplitFirst(SplitSecond(content, {FENCE_JSON}), {FENCE, FENCE_JSON})
    ELSE IF FENCE \in Range(content)
    THEN SplitFirst(SplitSecond(content, {FENCE, FENCE_JSON}), {FENCE, FENCE_JSON})
    ELSE content

----------------------------------------------------------------------------
(* LLMClient._call_llm, as the life of one call ("frame"):                 *)
(*   inflight  client.chat.completions.create is in progress (attempt)     *)
(*   sleeping  time.sleep(delay) is in progress after a failed attempt     *)
(*   returned  create returned a response, which _call_llm returns         *)
(*   raised    the last attempt failed and its error is re-raised          *)
(*   noclient  the method found self.client unset and did not call         *)

IdleFrame ==
    [op |-> "none", state |-> "idle", attempt |-> 0, tried |-> <<>>,
     errs |-> <<>>, sleeps |-> 0, delay |-> 0, content |-> <<>>, raised |-> ""]

NoClientFrame(op) == [IdleFrame EXCEPT !.op = op, !.state = "noclient"]

\* a rotation that stays on the last model instead of wrapping around
ModelForNoWrap(attempt) == models[Min(attempt + 1, Len(models))]

\* model = self.models[attempt % len(self.models)]
ModelFor(attempt) == models[(attempt % Len(models)) + 1]

\* for attempt in range(max_retries): the first iteration
CallStart(op) ==
    [IdleFrame EXCEPT !.op = op, !.state = "inflight", !.tried = <<ModelFor(0)>>]

\* a backoff that grows linearly instead of doubling
BackoffDelayLinear(attempt, jitter) == base_delay * (attempt + 1) * JitterSteps + jitter

\* delay = base_delay * (2**attempt) + random.uniform(0, 1), in ticks; jitter
\* is the grid point drawn, in 0..JitterSteps
BackoffDelay(attempt, jitter) == base_delay * Pow2(attempt) * JitterSteps + jitter

\* a loop that retries once more after the last attempt
RetryAllowedOnceMore(attempt) == attempt < max_retries

\* if attempt < max_retries - 1: sleep and continue
RetryAllowed(attempt) == attempt < max_retries - 1

\* a loop that keeps the first exception and raises it at the end
RaisedFirstError(errs) == errs[1]

\* raise e: the exception of the current (last) attempt
RaisedError(errs) == errs[Len(errs)]

\* except Exception as e: create raised error_msg during attempt c.attempt
CallOnError(c, error_msg, jitter) ==
    LET errs == Append(c.errs, error_msg) IN
    IF RetryAllowed(c.attempt)
    THEN [c EXCEPT !.state = "sleeping", !.errs = errs, !.sleeps = @ + 1,
                   !.delay = BackoffDelay(c.attempt, jitter)]
    ELSE [c EXCEPT !.state = "raised", !.errs = errs, !.raised = RaisedError(errs)]

\* time.sleep returned; continue: the next iteration calls create again
CallOnWake(c) ==
    [c EXCEPT !.state = "inflight", !.attempt = @ + 1,
              !.tried = Append(@, ModelFor(c.attempt + 1))]

\* return self.client.chat.completions.create(...)
CallOnResponse(c, content) == [c EXCEPT !.state = "returned", !.content = content]

CallFinished(c) == c.state \in {"returned", "raised", "noclient"}
CallActive(c) == c.state \in {"inflight", "sleeping"}

----------------------------------------------------------------------------
(* LLMClient: the fallbacks and the two public methods *)

\* service.upper()
Upper(service) ==
    CASE service = "s3" -> "S3"
      [] service = "ec2" -> "EC2"
      [] service = "iam" -> "IAM"
      [] service = "rds" -> "RDS"
      [] service = "a" -> "A"
      [] OTHER -> service

_fallback_summary(finding_texts) ==
    "Found " \o ToString(Len(finding_texts)) \o " security issues that require attention."

_fallback_remedy(service) ==
    "Review and remediate " \o Upper(service) \o " security configurations."

S3Command(rid) ==
    "# Enable encryption for bucket " \o rid \o "\n"
    \o "aws s3api put-bucket-encryption --bucket " \o rid \o " "
    \o "--server-side-encryption-configuration "
    \o "'{\"Rules\":[{\"ApplyServerSideEncryptionByDefault\":"
    \o "{\"SSEAlgorithm\":\"AES256\"}}]}'"

\* (the query of the source quotes the CIDR in backquotes, which a TLA+ string
\* cannot hold)
EC2Command ==
    "# Review security group rules\n"
    \o "aws ec2 describe-security-groups --query "
    \o "'SecurityGroups[?IpPermissions[?IpRanges[?CidrIp==0.0.0.0/0]]]'"

\* a template that treats every service other than s3 like ec2
_fallback_commands_any(service, resource_ids) ==
    IF service = "s3"
    THEN [i \in 1..Min(Len(resource_ids), max_fallback_buckets) |->
            S3Command(resource_ids[i])]
    ELSE <<EC2Command>>

_fallback_commands(service, resource_ids) ==
    IF service = "s3"
    THEN [i \in 1..Min(Len(resource_ids), max_fallback_buckets) |->
            S3Command(resource_ids[i])]
    ELSE IF service = "ec2" THEN <<EC2Command>>
    ELSE <<>>

\* response.choices[0].message.content or "{}"
ContentOrEmptyObject(content) == IF content = <<>> THEN <<J_EMPTY_OBJECT>> ELSE content

\* result.get(key, default) of a parsed object
GetOr(value, default) == IF value.t = "absent" THEN default ELSE value

\* What summarize_issues returns once its frame is finished: the pair
\* (summary, remedy) of Python values.
\*   noclient, raised (except Exception) -> the fallback pair
\*   returned, text no JSON (JSONDecodeError) -> (content, "")
\*   returned, a JSON object -> (result.get("summary", ""), result.get("remedy", ""))
\*   returned, JSON but no object -> result.get raises AttributeError, which
\*       the outer except Exception turns into the fallback pair
SummarizeFallback(service, finding_texts) ==
    <<PyStr(_fallback_summary(finding_texts)), PyStr(_fallback_remedy(service))>>

SummarizeParse(content, service, finding_texts) ==
    LET stripped == StripCodeFence(ContentOrEmptyObject(content))
        Parsed(result) ==
            CASE result.type = "invalid" -> <<PyStr(Join(stripped)), PyStr("")>>
              [] result.type = "object" ->
                    <<GetOr(result.summary, PyStr("")), GetOr(result.remedy, PyStr(""))>>
              [] OTHER -> SummarizeFallback(service, finding_texts)
    IN  \* result = json.loads(content.strip()), computed once
        CHOOSE r \in {Parsed(result) :
                        result \in {json_loads(text) : text \in {Join(Strip(stripped))}}} :
            TRUE

\* a handler of the exhausted call that returns empty texts, not the fallback
summarize_issues_empty(c, service, finding_texts) ==
    IF c.state = "returned"
    THEN SummarizeParse(c.content, service, finding_texts)
    ELSE IF c.state = "raised" THEN <<PyStr(""), PyStr("")>>
    ELSE SummarizeFallback(service, finding_texts)

summarize_issues(c, service, finding_texts) ==
    IF c.state = "returned"
    THEN SummarizeParse(c.content, service, finding_texts)
    ELSE SummarizeFallback(service, finding_texts)

\* [str(cmd) for cmd in commands if cmd]
RECURSIVE NonEmptyStrings(_)
NonEmptyStrings(items) ==
    IF items = <<>> THEN <<>>
    ELSE IF Head(items) = "" THEN NonEmptyStrings(Tail(items))
    ELSE <<Head(items)>> \o NonEmptyStrings(Tail(items))

\* What generate_commands returns once its frame is finished.
\*   noclient, raised -> the fallback commands
\*   returned, text no JSON -> []
\*   returned, object: commands missing -> [], a list -> its non-empty items,
\*       null or a number -> iterating raises TypeError -> the fallback commands
\*   returned, JSON but no object -> AttributeError -> the fallback commands
CommandsParse(content, service, resource_ids) ==
    LET stripped == StripCodeFence(ContentOrEmptyObject(content))
        Parsed(result) ==
            LET commands == GetOr(result.commands, PyList(<<>>)) IN
            CASE result.type = "invalid" -> <<>>
              [] result.type = "object" /\ commands.t = "list" ->
                    NonEmptyStrings(commands.items)
              [] OTHER -> _fallback_commands(service, resource_ids)
    IN  \* result = json.loads(content.strip()), computed once
        CHOOSE r \in {Parsed(result) :
                        result \in {json_loads(text) : text \in {Join(Strip(stripped))}}} :
            TRUE

generate_commands(c, service, resource_ids) ==
    IF c.state = "returned"
    THEN CommandsParse(c.content, service, resource_ids)
    ELSE _fallback_commands(service, resource_ids)

----------------------------------------------------------------------------
(* Findings, and the pure functions of SummarizationServicer *)

\* the zero values a field of the request has when it is not set
FINDING_STATUS_UNSPECIFIED == "UNSPECIFIED"
SEVERITY_UNSPECIFIED == 0
FINDING_STATUS_PASS == "PASS"
FINDING_STATUS_FAIL == "FAIL"

\* the Severity enum of the generated summarization_pb2 module
SEVERITY_LOW == 1
SEVERITY_MEDIUM == 2
SEVERITY_HIGH == 3
SEVERITY_CRITICAL == 4

ACTION_TYPE_UNSPECIFIED == "ACTION_TYPE_UNSPECIFIED"
ACTION_TYPE_ESCALATE == "ACTION_TYPE_ESCALATE"
ACTION_TYPE_ALERT == "ACTION_TYPE_ALERT"
ACTION_TYPE_SUGGEST_FIX == "ACTION_TYPE_SUGGEST_FIX"

Finding(service, check_id, resource_id, status, severity) ==
    [service |-> service, check_id |-> check_id, resource_id |-> resource_id,
     status |-> status, severity |-> severity,
     title |-> check_id \o " on " \o resource_id,
     description |-> "Check " \o check_id \o " reported " \o status]

\* key = f"{finding.service}:{finding.check_id}"
GroupKey(f) == f.service \o ":" \o f.check_id

\* the keys of the dict, in insertion order
RECURSIVE KeysInOrder(_, _)
KeysInOrder(fs, seen) ==
    IF fs = <<>> THEN <<>>
    ELSE LET key == GroupKey(Head(fs)) IN
         IF key \in seen THEN KeysInOrder(Tail(fs), seen)
         ELSE <<key>> \o KeysInOrder(Tail(fs), seen \cup {key})

\* a grouping that keeps the first finding of every key only
_group_findings_first(fs) ==
    LET keys == KeysInOrder(fs, {}) IN
    [i \in 1..Len(keys) |->
        [key |-> keys[i],
         findings |-> <<SelectSeq(fs, LAMBDA f : GroupKey(f) = keys[i])[1]>>]]

\* grouped.items(): the (key, findings) pairs in insertion order
_group_findings(fs) ==
    LET keys == KeysInOrder(fs, {}) IN
    [i \in 1..Len(keys) |->
        [key |-> keys[i],
         findings |-> SelectSeq(fs, LAMBDA f : GroupKey(f) = keys[i])]]

\* the names without a colon, and the texts that may follow the first colon
\* of a key: the universe group_key.split(":", 1) is computed over
ColonFreeNames == {"s3", "ec2", "iam", "rds", "a", ""}
KeyTails == {"encryption", "open-sg", "mfa", "public", "c", "b:c", ""}

\* service, check_id = group_key.split(":", 1): the text before the first
\* colon, and the text after it
SplitKey(group_key) ==
    CHOOSE p \in ColonFreeNames \X KeyTails : p[1] \o ":" \o p[2] = group_key

FailedFindings(fs) == SelectSeq(fs, LAMBDA f : f.status = FINDING_STATUS_FAIL)

RECURSIVE MaxOf(_)
MaxOf(ns) ==
    IF Len(ns) = 1 THEN ns[1]
    ELSE LET m == MaxOf(Tail(ns)) IN IF ns[1] >= m THEN ns[1] ELSE m

\* max(severities) if severities else 0
MaxSeverity(fs) == IF fs = <<>> THEN 0 ELSE MaxOf([i \in 1..Len(fs) |-> fs[i].severity])

\* severity_scores.get(max_severity, 0)
SeverityScore(severity) ==
    CASE severity = SEVERITY_LOW -> 25
      [] severity = SEVERITY_MEDIUM -> 50
      [] severity = SEVERITY_HIGH -> 75
      [] severity = SEVERITY_CRITICAL -> 100
      [] OTHER -> 0

\* a score whose scale factor is not capped at 1.5
_calculate_group_risk_score_uncapped(fs, max_severity) ==
    LET base_score == SeverityScore(max_severity)
        failed_count == Len(FailedFindings(fs))
    IN  IF failed_count = 0 THEN 0
        ELSE Min((base_score * (10 + (failed_count - 1))) \div 10, 100)

\* min(int(base_score * min(1.0 + (failed_count - 1) * 0.1, 1.5)), 100), in
\* tenths: the floating-point product truncates to the same integer for
\* every base score and count
_calculate_group_risk_score(fs, max_severity) ==
    LET base_score == SeverityScore(max_severity)
        failed_count == Len(FailedFindings(fs))
    IN  IF failed_count = 0 THEN 0
        ELSE Min((base_score * Min(10 + (failed_count - 1), 15)) \div 10, 100)

\* an action that depends on the number of failing findings
_determine_action_by_count(max_severity, failed_count) ==
    IF failed_count = 0 THEN ACTION_TYPE_UNSPECIFIED
    ELSE IF max_severity = SEVERITY_CRITICAL THEN ACTION_TYPE_ESCALATE
    ELSE IF max_severity = SEVERITY_HIGH \/ failed_count > 1 THEN ACTION_TYPE_ALERT
    ELSE ACTION_TYPE_SUGGEST_FIX

_determine_action(max_severity, failed_count) ==
    IF failed_count = 0 THEN ACTION_TYPE_UNSPECIFIED
    ELSE IF max_severity = SEVERITY_CRITICAL THEN ACTION_TYPE_ESCALATE
    ELSE IF max_severity = SEVERITY_HIGH THEN ACTION_TYPE_ALERT
    ELSE ACTION_TYPE_SUGGEST_FIX

\* ", ".join(parts)
RECURSIVE JoinComma(_)
JoinComma(parts) ==
    IF parts = <<>> THEN ""
    ELSE IF Len(parts) = 1 THEN parts[1]
    ELSE parts[1] \o ", " \o JoinComma(Tail(parts))

\* a text for the all-passed case that ends after its first sentence
_generate_summary_text_short(critical, high, medium, low, passed) ==
    LET total_failed == critical + high + medium + low
        total == total_failed + passed
        parts == (IF critical > 0 THEN <<ToString(critical) \o " critical">> ELSE <<>>)
                 \o (IF high > 0 THEN <<ToString(high) \o " high">> ELSE <<>>)
                 \o (IF medium > 0 THEN <<ToString(medium) \o " medium">> ELSE <<>>)
                 \o (IF low > 0 THEN <<ToString(low) \o " low">> ELSE <<>>)
    IN  IF total_failed = 0
        THEN "All " \o ToString(total) \o " security checks passed."
        ELSE "Found " \o ToString(total_failed) \o " security issues ("
             \o JoinComma(parts) \o " severity) out of " \o ToString(total)
             \o " total checks. " \o ToString(passed) \o " checks passed."

_generate_summary_text(critical, high, medium, low, passed) ==
    LET total_failed == critical + high + medium + low
        total == total_failed + passed
        parts == (IF critical > 0 THEN <<ToString(critical) \o " critical">> ELSE <<>>)
                 \o (IF high > 0 THEN <<ToString(high) \o " high">> ELSE <<>>)
                 \o (IF medium > 0 THEN <<ToString(medium) \o " medium">> ELSE <<>>)
                 \o (IF low > 0 THEN <<ToString(low) \o " low">> ELSE <<>>)
    IN  IF total_failed = 0
        THEN "All " \o ToString(total) \o " security checks passed. No issues detected."
        ELSE "Found " \o ToString(total_failed) \o " security issues ("
             \o JoinComma(parts) \o " severity) out of " \o ToString(total)
             \o " total checks. " \o ToString(passed) \o " checks passed."

\* a count that looks at the severity only
CountOfAnyStatus(fs, status, severities) ==
    Len(SelectSeq(fs, LAMBDA f : f.severity \in severities))

CountOf(fs, status, severities) ==
    Len(SelectSeq(fs, LAMBDA f : f.status = status /\ f.severity \in severities))

_calculate_risk_summary(fs) ==
    LET failing == FailedFindings(fs)
        critical_count == CountOf(fs, FINDING_STATUS_FAIL, {SEVERITY_CRITICAL})
        high_count == CountOf(fs, FINDING_STATUS_FAIL, {SEVERITY_HIGH})
        medium_count == CountOf(fs, FINDING_STATUS_FAIL, {SEVERITY_MEDIUM})
        low_count == Len(failing) - critical_count - high_count - medium_count
        passed_count == Len(SelectSeq(fs, LAMBDA f : f.status = FINDING_STATUS_PASS))
        total_failed == critical_count + high_count + medium_count + low_count
        weighted == critical_count * 100 + high_count * 75
                    + medium_count * 50 + low_count * 25
    IN  [overall_score |->
            IF total_failed = 0 THEN 0
            ELSE Min(weighted \div (IF total_failed > 1 THEN total_failed ELSE 1), 100),
         critical_count |-> critical_count,
         high_count |-> high_count,
         medium_count |-> medium_count,
         low_count |-> low_count,
         passed_count |-> passed_count,
         risk_level |->
            IF total_failed = 0 THEN "LOW"
            ELSE IF critical_count > 0 THEN "CRITICAL"
            ELSE IF high_count > 0 THEN "HIGH"
            ELSE IF medium_count > 0 THEN "MEDIUM"
            ELSE "LOW",
         summary_text |-> _generate_summary_text(critical_count, high_count,
                                                 medium_count, low_count, passed_count)]

----------------------------------------------------------------------------
(* SummarizationServicer: _create_finding_group, _create_action_item and   *)
(* _process_group, cut where the worker thread blocks in the provider      *)

\* grouped = self._group_findings(findings)
Grouped == _group_findings(findings)

\* finding_texts = [f"{f.title}: {f.description}" for f in failed_findings[:20]]
FindingTexts(fs) ==
    LET failed == Take(FailedFindings(fs), max_snippets) IN
    [i \in 1..Len(failed) |-> failed[i].title \o ": " \o failed[i].description]

\* if failed_count > 0: summary, remedy = self.llm.summarize_issues(...)
NeedsSummary(fs) == Len(FailedFindings(fs)) > 0

\* an action item for every failing group, whatever the request asked for
NeedsActionItemAlways(fs) == FailedFindings(fs) # <<>>

\* if failed_findings and include_remediation: self._create_action_item(...)
NeedsActionItem(fs) == FailedFindings(fs) # <<>> /\ include_remediation

\* summarization_pb2.FindingGroup(...)
FindingGroup(group_key, fs, summary, remedy) ==
    LET parts == SplitKey(group_key)
        service == parts[1]
        check_id == parts[2]
        failed_count == Len(FailedFindings(fs))
        max_severity == MaxSeverity(fs)
    IN  [group_id |-> group_key,
         title |-> IF failed_count > 0
                   THEN ToString(failed_count) \o " " \o Upper(service)
                        \o " resources failed " \o check_id
                   ELSE "All " \o ToString(Len(fs)) \o " " \o Upper(service)
                        \o " resources passed " \o check_id,
         description |-> fs[1].description,
         severity |-> max_severity,
         finding_count |-> Len(fs),
         resource_ids |-> [i \in 1..Len(fs) |-> fs[i].resource_id],
         check_id |-> check_id,
         service |-> service,
         risk_score |-> _calculate_group_risk_score(fs, max_severity),
         recommended_action |-> _determine_action(max_severity, failed_count),
         summary |-> summary,
         remedy |-> remedy]

\* summarization_pb2.ActionItem(...)
ActionItem(group, commands) ==
    [action_id |-> "action_" \o group.group_id,
     action_type |-> group.recommended_action,
     severity |-> group.severity,
     title |-> "Fix: " \o group.title,
     description |-> "Address " \o ToString(group.finding_count)
                     \o " findings for " \o group.check_id,
     group_id |-> group.group_id,
     commands |-> commands]

\* a work item of the executor, with the future's outcome
NewTask(key) ==
    [key |-> key, st |-> "pending", sum |-> IdleFrame, cmd |-> IdleFrame, group |-> <<>>,
     action |-> <<>>, exc |-> "", collected |-> FALSE]

\* an action item only for a command list that is not empty
FinishCommandsIfAny(rec) ==
    LET group == rec.group[1]
        commands == generate_commands(rec.cmd, group.service, group.resource_ids)
    IN  [rec EXCEPT !.st = "done",
                    !.action = IF commands = <<>> THEN <<>>
                               ELSE <<ActionItem(group, commands)>>]

\* _create_action_item from the return of generate_commands on, and the
\* return of _process_group
FinishCommands(rec) ==
    LET group == rec.group[1]
        Acting(commands) ==
            [rec EXCEPT !.st = "done", !.action = <<ActionItem(group, commands)>>]
    IN  \* commands = self.llm.generate_commands(...), computed once
        CHOOSE r \in {Acting(commands) :
                        commands \in {generate_commands(rec.cmd, group.service,
                                                        group.resource_ids)}} : TRUE

\* _create_finding_group from the return of summarize_issues on, then
\* _process_group up to the provider call of generate_commands or its return.
\* The FindingGroup constructor leaves a field given as None unset and raises
\* TypeError for a summary or remedy that is neither a string nor None; the
\* exception leaves _process_group.
FinishSummarize(rec, g) ==
    LET text(v) == IF v.t = "str" THEN v.s ELSE ""
        Grouping(built) ==
            IF NeedsActionItem(g.findings)
            THEN IF client
                 THEN [built EXCEPT !.cmd = CallStart("commands")]
                 ELSE FinishCommands([built EXCEPT !.cmd = NoClientFrame("commands")])
            ELSE [built EXCEPT !.st = "done"]
        Building(pair) ==
            IF pair[1].t \notin {"str", "none"} \/ pair[2].t \notin {"str", "none"}
            THEN [rec EXCEPT !.st = "done", !.exc = "TypeError"]
            ELSE CHOOSE r \in {Grouping(built) :
                    built \in {[rec EXCEPT !.group =
                                  <<FindingGroup(g.key, g.findings,
                                                 text(pair[1]), text(pair[2]))>>]}} : TRUE
    IN  \* summary, remedy = self.llm.summarize_issues(...), computed once
        CHOOSE r \in {Building(pair) :
            pair \in {IF rec.sum.op = "none" THEN <<PyStr(""), PyStr("")>>
                      ELSE summarize_issues(rec.sum, SplitKey(g.key)[1],
                                            FindingTexts(g.findings))}} : TRUE

\* a task that works on the findings of the first group, whatever its own
BeginProcessFirstGroup(rec, g) ==
    LET running == [rec EXCEPT !.st = "running"]
        first == _group_findings(findings)[1]
    IN  IF NeedsSummary(first.findings)
        THEN IF client
             THEN [running EXCEPT !.sum = CallStart("summarize")]
             ELSE FinishSummarize([running EXCEPT !.sum = NoClientFrame("summarize")],
                                  first)
        ELSE FinishSummarize(running, first)

\* _process_group from its start up to the first provider call or its return
BeginProcessGroup(rec, g) ==
    LET running == [rec EXCEPT !.st = "running"] IN
    IF NeedsSummary(g.findings)
    THEN IF client
         THEN [running EXCEPT !.sum = CallStart("summarize")]
         ELSE FinishSummarize([running EXCEPT !.sum = NoClientFrame("summarize")], g)
    ELSE FinishSummarize(running, g)

\* the frame a running task is blocked in
ActiveOp(rec) ==
    IF CallActive(rec.cmd) THEN "commands"
    ELSE IF CallActive(rec.sum) THEN "summarize"
    ELSE "none"
ActiveFrame(rec) == IF ActiveOp(rec) = "commands" THEN rec.cmd ELSE rec.sum

\* the task once its active frame has become c
Resume(rec, g, c) ==
    IF ActiveOp(rec) = "summarize"
    THEN IF CallFinished(c) THEN FinishSummarize([rec EXCEPT !.sum = c], g)
         ELSE [rec EXCEPT !.sum = c]
    ELSE IF CallFinished(c) THEN FinishCommands([rec EXCEPT !.cmd = c])
         ELSE [rec EXCEPT !.cmd = c]

Tasks == 1..Len(task)
Running == {i \in Tasks : task[i].st = "running"}

----------------------------------------------------------------------------
(* SummarizeFindings: the executor and the request thread *)

PipelineVars == <<findings, include_remediation, submitted, task,
                  finding_groups, action_items, response>>
ConfigVars == <<client, models>>
EnvVars == <<direct, errors_left>>

\* executor.submit(self._process_group, key, findings, ...), in grouped order
Submit ==
    /\ response = <<>>
    /\ submitted < Len(Grouped)
    /\ submitted' = submitted + 1
    /\ task' = Append(task, NewTask(Grouped[submitted + 1].key))
    /\ UNCHANGED <<ConfigVars, findings, include_remediation, finding_groups,
                   action_items, response, EnvVars>>

\* a pool whose sleeping tasks give their worker back
WorkerFreeWhileSleeping ==
    Cardinality({i \in 1..Len(task) :
        task[i].st = "running"
        /\ task[i].sum.state # "sleeping" /\ task[i].cmd.state # "sleeping"}) < max_workers

\* a worker thread is free: fewer than max_workers work items are running
WorkerFree == Cardinality(Running) < max_workers

\* a worker takes the oldest queued work item and runs _process_group
StartTask(i) ==
    /\ task[i].st = "pending"
    /\ \A j \in 1..(i - 1) : task[j].st # "pending"
    /\ WorkerFree
    /\ \E g \in {Grouped[i]} : task' = [task EXCEPT ![i] = BeginProcessGroup(@, g)]
    /\ UNCHANGED <<ConfigVars, findings, include_remediation, submitted,
                   finding_groups, action_items, response, EnvVars>>

\* client.chat.completions.create raises in task i
TaskProviderError(i, error_msg, jitter) ==
    /\ task[i].st = "running"
    /\ ActiveFrame(task[i]).state = "inflight"
    /\ errors_left > 0
    /\ errors_left' = errors_left - 1
    /\ \E g \in {Grouped[i]} :
          task' = [task EXCEPT ![i] =
                     Resume(@, g, CallOnError(ActiveFrame(@), error_msg, jitter))]
    /\ UNCHANGED <<ConfigVars, findings, include_remediation, submitted,
                   finding_groups, action_items, response, direct>>

\* client.chat.completions.create returns in task i
TaskProviderResponse(i, content) ==
    /\ task[i].st = "running"
    /\ ActiveFrame(task[i]).state = "inflight"
    /\ \E g \in {Grouped[i]} :
          task' = [task EXCEPT ![i] = Resume(@, g, CallOnResponse(ActiveFrame(@), content))]
    /\ UNCHANGED <<ConfigVars, findings, include_remediation, submitted,
                   finding_groups, action_items, response, EnvVars>>

\* time.sleep(delay) returns in task i
TaskWake(i) ==
    /\ task[i].st = "running"
    /\ ActiveFrame(task[i]).state = "sleeping"
    /\ \E g \in {Grouped[i]} :
          task' = [task EXCEPT ![i] = Resume(@, g, CallOnWake(ActiveFrame(@)))]
    /\ UNCHANGED <<ConfigVars, findings, include_remediation, submitted,
                   finding_groups, action_items, response, EnvVars>>

\* an assignment in place of the append
Overwrite(list, items) == IF items = <<>> THEN list ELSE items

\* finding_groups.append(group); if action: action_items.append(action)
AppendAll(list, items) == list \o items

\* an iteration that puts the action item at the front of its list
CollectActionFirst(i) ==
    /\ response = <<>>
    /\ submitted = Len(Grouped)
    /\ task[i].st = "done"
    /\ ~task[i].collected
    /\ task' = [task EXCEPT ![i].collected = TRUE]
    /\ IF task[i].exc = ""
       THEN /\ finding_groups' = finding_groups \o task[i].group
            /\ action_items' = task[i].action \o action_items
       ELSE UNCHANGED <<finding_groups, action_items>>
    /\ UNCHANGED <<ConfigVars, findings, include_remediation, submitted,
                   response, EnvVars>>

\* for future in futures.as_completed(future_to_group): one iteration, on a
\* finished future; future.result() returns (group, action) or raises
Collect(i) ==
    /\ response = <<>>
    /\ task[i].st = "done"
    /\ ~task[i].collected
    /\ submitted = Len(Grouped)
    /\ task' = [task EXCEPT ![i].collected = TRUE]
    /\ IF task[i].exc = ""
       THEN /\ finding_groups' = AppendAll(finding_groups, task[i].group)
            /\ action_items' = AppendAll(action_items, task[i].action)
       ELSE UNCHANGED <<finding_groups, action_items>>
    /\ UNCHANGED <<ConfigVars, findings, include_remediation, submitted,
                   response, EnvVars>>

\* a request thread that goes on after the first future it collected
FirstTaskJoined ==
    /\ submitted = Len(Grouped)
    /\ Tasks = {} \/ \E i \in Tasks : task[i].collected

\* as_completed is exhausted and the with block has left the executor
\* (shutdown(wait=True)): the request thread may go on
AllTasksJoined ==
    /\ \A i \in Tasks : task[i].collected
    /\ \A i \in Tasks : task[i].st = "done"
    /\ submitted = Len(Grouped)

\* risk_summary = ...; return SummarizeFindingsResponse(...)
Respond ==
    /\ response = <<>>
    /\ AllTasksJoined
    /\ response' = <<[groups |-> finding_groups,
                      risk_summary |-> _calculate_risk_summary(findings),
                      action_items |-> action_items]>>
    /\ UNCHANGED <<ConfigVars, findings, include_remediation, submitted, task,
                   finding_groups, action_items, EnvVars>>

----------------------------------------------------------------------------
(* Spec: one SummarizeFindings request *)

\* the findings a request is drawn from
FindingPool ==
    <<Finding("s3", "encryption", "b1", FINDING_STATUS_FAIL, SEVERITY_HIGH),
      Finding("s3", "encryption", "b2", FINDING_STATUS_PASS, SEVERITY_CRITICAL),
      Finding("ec2", "open-sg", "sg1", FINDING_STATUS_FAIL, SEVERITY_MEDIUM),
      Finding("iam", "mfa", "u1", FINDING_STATUS_FAIL, SEVERITY_CRITICAL),
      Finding("rds", "public", "db1", FINDING_STATUS_FAIL, SEVERITY_LOW)>>

\* the elements of seq at the indices in S, in their order in seq
RECURSIVE Pick(_, _, _)
Pick(seq, S, from) ==
    IF from > Len(seq) THEN <<>>
    ELSE (IF from \in S THEN <<seq[from]>> ELSE <<>>) \o Pick(seq, S, from + 1)

\* the finding lists of at most MaxFindings pool findings, in pool order
Requests ==
    {Pick(FindingPool, S, 1) :
        S \in {T \in SUBSET (1..Len(FindingPool)) : Cardinality(T) <= MaxFindings}}

NoDirect ==
    [st |-> "unused", op |-> "none", service |-> "", finding_texts |-> <<>>,
     resource_ids |-> <<>>, call |-> IdleFrame,
     summary |-> PyStr(""), remedy |-> PyStr(""), commands |-> <<>>]

\* what the provider does during a request: it times out, or answers a
\* summary prompt with the expected object or with a number for a summary,
\* and a command prompt with the expected object
RequestErrors == {ERR_TIMEOUT}
RequestJitters == {0}
RequestSummaryContents == {<<J_FULL>>, <<J_NUMBER_SUMMARY>>}
RequestCommandContents == {<<J_COMMANDS>>}

ContentsFor(op, summaryContents, commandContents) ==
    IF op = "summarize" THEN summaryContents ELSE commandContents

Init ==
    /\ client \in BOOLEAN
    /\ models = LLMClient_models(DefaultModel)
    /\ findings \in Requests
    /\ include_remediation \in BOOLEAN
    /\ submitted = 0
    /\ task = <<>>
    /\ finding_groups = <<>>
    /\ action_items = <<>>
    /\ response = <<>>
    /\ direct = NoDirect
    /\ errors_left = MaxProviderErrors

Next ==
    \/ Submit
    \/ \E i \in Tasks : StartTask(i)
    \/ \E i \in Tasks : \E e \in RequestErrors : \E j \in RequestJitters :
            TaskProviderError(i, e, j)
    \/ \E i \in Tasks :
            \E content \in ContentsFor(ActiveOp(task[i]), RequestSummaryContents,
                                       RequestCommandContents) :
                TaskProviderResponse(i, content)
    \/ \E i \in Tasks : TaskWake(i)
    \/ \E i \in Tasks : Collect(i)
    \/ Respond

Spec == Init /\ [][Next]_vars

----------------------------------------------------------------------------
(* SpecTask: a request whose findings form one group, with a provider that *)
(* may fail every attempt of both calls                                    *)

TaskRequests == {r \in Requests : Len(_group_findings(r)) = 1}

InitTask ==
    /\ client \in BOOLEAN
    /\ models = LLMClient_models(DefaultModel)
    /\ findings \in TaskRequests
    /\ include_remediation \in BOOLEAN
    /\ submitted = 0
    /\ task = <<>>
    /\ finding_groups = <<>>
    /\ action_items = <<>>
    /\ response = <<>>
    /\ direct = NoDirect
    /\ errors_left = 2 * max_retries

SpecTask == InitTask /\ [][Next]_vars

\* the provider call of task i returns or fails
TaskProviderStep(i) ==
    \/ \E e \in RequestErrors : \E j \in RequestJitters : TaskProviderError(i, e, j)
    \/ \E content \in ContentsFor(ActiveOp(task[i]), RequestSummaryContents,
                                   RequestCommandContents) :
            TaskProviderResponse(i, content)

\* the request thread and every worker thread keep running, time.sleep
\* returns, and every provider call returns or fails
Fairness ==
    /\ WF_vars(Submit)
    /\ \A i \in 1..MaxFindings : WF_vars(i \in Tasks /\ StartTask(i))
    /\ \A i \in 1..MaxFindings : WF_vars(i \in Tasks /\ TaskProviderStep(i))
    /\ \A i \in 1..MaxFindings : WF_vars(i \in Tasks /\ TaskWake(i))
    /\ \A i \in 1..MaxFindings : WF_vars(i \in Tasks /\ Collect(i))
    /\ WF_vars(Respond)

FairSpecTask == InitTask /\ [][Next]_vars /\ Fairness

----------------------------------------------------------------------------
(* FairSpecPool: requests of one to four groups under the same fairness    *)

\* the requests of the pool runs, each with the remediation flags it is run
\* with and the number of provider calls that may fail during it:
\*   four failing groups, so that one task waits in the queue of the three
\*       workers, without remediation;
\*   three failing groups, with and without remediation;
\*   two groups with a failing member (one of them with a passing member as
\*       well), with a provider that may fail every attempt of both calls of
\*       both groups;
\*   every request of one group, with a provider that may fail every attempt
\*       of both calls
PoolRuns ==
    {[request |-> Pick(FindingPool, {1, 3, 4, 5}, 1), remediation |-> {FALSE},
      errors |-> MaxProviderErrors],
     [request |-> Pick(FindingPool, {1, 3, 4}, 1), remediation |-> BOOLEAN,
      errors |-> MaxProviderErrors],
     [request |-> Pick(FindingPool, {1, 2, 3}, 1), remediation |-> BOOLEAN,
      errors |-> 2 * (2 * max_retries)]}
    \cup {[request |-> r, remediation |-> BOOLEAN, errors |-> 2 * max_retries] :
             r \in TaskRequests}

InitPool ==
    /\ client \in BOOLEAN
    /\ models = LLMClient_models(DefaultModel)
    /\ \E run \in PoolRuns :
          /\ findings = run.request
          /\ include_remediation \in run.remediation
          /\ errors_left = run.errors
    /\ submitted = 0
    /\ task = <<>>
    /\ finding_groups = <<>>
    /\ action_items = <<>>
    /\ response = <<>>
    /\ direct = NoDirect

FairSpecPool == InitPool /\ [][Next]_vars /\ Fairness

----------------------------------------------------------------------------
(* SpecClient: one direct call of summarize_issues or generate_commands *)

\* the response texts the provider answers a summary prompt with
SummaryContents ==
    {<<>>,
     <<J_FULL>>,
     <<J_NO_REMEDY>>,
     <<J_NO_SUMMARY>>,
     <<J_EMPTY_OBJECT>>,
     <<FENCE_JSON, "\n", J_FULL, "\n", FENCE>>,
     <<"Here is the analysis:", "\n", FENCE, "\n", J_NO_REMEDY, "\n", FENCE, "\n">>,
     <<T_PROSE>>,
     <<" ">>,
     <<FENCE_JSON, "\n", T_PROSE, "\n", FENCE>>,
     <<J_ARRAY>>,
     <<J_NUMBER_SUMMARY>>}

\* the response texts the provider answers a command prompt with
CommandContents ==
    {<<>>,
     <<J_COMMANDS>>,
     <<J_EMPTY_OBJECT>>,
     <<FENCE_JSON, "\n", J_COMMANDS, "\n", FENCE>>,
     <<T_PROSE>>,
     <<FENCE, T_PROSE, FENCE>>,
     <<J_ARRAY>>,
     <<J_COMMANDS_NULL>>}

Jitters == 0..JitterSteps

DirectServices == {"s3", "ec2", "iam"}
SnippetLists == {[i \in 1..n |-> "mfa on u" \o ToString(i) \o ": Check mfa reported FAIL"] :
                    n \in 0..MaxSnippets}
ResourceLists == {[i \in 1..n |-> "b" \o ToString(i)] : n \in 0..MaxResources}

\* the caller's invocation, before the call
DirectCall(op, service, finding_texts, resource_ids) ==
    [NoDirect EXCEPT !.st = "ready", !.op = op, !.service = service,
                     !.finding_texts = finding_texts, !.resource_ids = resource_ids]

\* the invocation once its frame has become c: the method returns when the
\* frame is finished
DirectResume(d, c) ==
    IF ~CallFinished(c) THEN [d EXCEPT !.call = c]
    ELSE IF d.op = "summarize"
    THEN LET pair == summarize_issues(c, d.service, d.finding_texts) IN
         [d EXCEPT !.call = c, !.st = "done", !.summary = pair[1], !.remedy = pair[2]]
    ELSE [d EXCEPT !.call = c, !.st = "done",
                   !.commands = generate_commands(c, d.service, d.resource_ids)]

\* the method is entered: if not self.client: return the fallback; otherwise
\* _call_llm makes its first attempt
DirectInvoke ==
    /\ direct.st = "ready"
    /\ direct' = DirectResume([direct EXCEPT !.st = "calling"],
                              IF client THEN CallStart(direct.op)
                              ELSE NoClientFrame(direct.op))
    /\ UNCHANGED <<ConfigVars, PipelineVars, errors_left>>

DirectProviderError(error_msg, jitter) ==
    /\ direct.st = "calling"
    /\ direct.call.state = "inflight"
    /\ errors_left > 0
    /\ errors_left' = errors_left - 1
    /\ direct' = DirectResume(direct, CallOnError(direct.call, error_msg, jitter))
    /\ UNCHANGED <<ConfigVars, PipelineVars>>

DirectProviderResponse(content) ==
    /\ direct.st = "calling"
    /\ direct.call.state = "inflight"
    /\ direct' = DirectResume(direct, CallOnResponse(direct.call, content))
    /\ UNCHANGED <<ConfigVars, PipelineVars, errors_left>>

DirectWake ==
    /\ direct.st = "calling"
    /\ direct.call.state = "sleeping"
    /\ direct' = DirectResume(direct, CallOnWake(direct.call))
    /\ UNCHANGED <<ConfigVars, PipelineVars, errors_left>>

InitClient ==
    /\ client \in BOOLEAN
    /\ models \in {LLMClient_models(primary_model) : primary_model \in PrimaryModels}
    /\ findings = <<>>
    /\ include_remediation = TRUE
    /\ submitted = 0
    /\ task = <<>>
    /\ finding_groups = <<>>
    /\ action_items = <<>>
    /\ response = <<>>
    /\ direct \in
         {DirectCall("summarize", service, texts, <<>>) :
             service \in DirectServices, texts \in SnippetLists}
         \cup {DirectCall("commands", service, <<>>, rids) :
             service \in DirectServices, rids \in ResourceLists}
    /\ errors_left = max_retries

NextClient ==
    \/ DirectInvoke
    \/ \E e \in ErrorMessages : \E j \in Jitters : DirectProviderError(e, j)
    \/ \E content \in ContentsFor(direct.op, SummaryContents, CommandContents) :
            DirectProviderResponse(content)
    \/ DirectWake

SpecClient == InitClient /\ [][NextClient]_vars

----------------------------------------------------------------------------
(* SpecEnrich: a request whose findings form one group, with a provider    *)
(* that answers either prompt with any of the response texts               *)

NextEnrich ==
    \/ Submit
    \/ \E i \in Tasks : StartTask(i)
    \/ \E i \in Tasks : \E e \in RequestErrors : \E j \in RequestJitters :
            TaskProviderError(i, e, j)
    \/ \E i \in Tasks :
            \E content \in ContentsFor(ActiveOp(task[i]), SummaryContents,
                                       CommandContents) :
                TaskProviderResponse(i, content)
    \/ \E i \in Tasks : TaskWake(i)
    \/ \E i \in Tasks : Collect(i)
    \/ Respond

SpecEnrich == InitTask /\ [][NextEnrich]_vars

----------------------------------------------------------------------------
(* SpecReport: a request served without a credential; grouping, scoring    *)
(* and the risk summary over findings of every status and severity         *)

\* findings whose keys collide on the separator, with an empty check_id, and
\* with a status or a severity that is not set
ReportPool ==
    <<Finding("a:b", "c", "r1", FINDING_STATUS_FAIL, SEVERITY_HIGH),
      Finding("a", "b:c", "r2", FINDING_STATUS_FAIL, SEVERITY_LOW),
      Finding("a", "c", "r3", FINDING_STATUS_PASS, SEVERITY_CRITICAL),
      Finding("s3", "", "r4", FINDING_STATUS_FAIL, SEVERITY_MEDIUM),
      Finding("s3", "", "r5", FINDING_STATUS_PASS, SEVERITY_LOW),
      Finding("a", "c", "r6", FINDING_STATUS_FAIL, SEVERITY_UNSPECIFIED),
      Finding("s3", "encryption", "r7", FINDING_STATUS_UNSPECIFIED, SEVERITY_MEDIUM),
      Finding("s3", "encryption", "r8", FINDING_STATUS_FAIL, SEVERITY_CRITICAL)>>

Severities == SEVERITY_UNSPECIFIED..SEVERITY_CRITICAL

\* one group of n failing findings of one severity and m passing findings of
\* another
UniformGroup(n, failing_severity, m, passing_severity) ==
    [i \in 1..(n + m) |->
        IF i <= n
        THEN Finding("s3", "encryption", "b" \o ToString(i), FINDING_STATUS_FAIL,
                     failing_severity)
        ELSE Finding("s3", "encryption", "b" \o ToString(i), FINDING_STATUS_PASS,
                     passing_severity)]

ReportRequests ==
    {Pick(ReportPool, S, 1) :
        S \in {T \in SUBSET (1..Len(ReportPool)) : Cardinality(T) <= MaxReportFindings}}
    \cup {UniformGroup(n, fs, m, ps) :
            n \in 0..MaxFailing, fs \in Severities, m \in 0..MaxPassing, ps \in Severities}

InitReport ==
    /\ client = FALSE
    /\ models = LLMClient_models(DefaultModel)
    /\ findings \in ReportRequests
    /\ include_remediation \in BOOLEAN
    /\ submitted = 0
    /\ task = <<>>
    /\ finding_groups = <<>>
    /\ action_items = <<>>
    /\ response = <<>>
    /\ direct = NoDirect
    /\ errors_left = 0

NextReport ==
    \/ Submit
    \/ \E i \in Tasks : StartTask(i)
    \/ \E i \in Tasks : Collect(i)
    \/ Respond

SpecReport == InitReport /\ [][NextReport]_vars

----------------------------------------------------------------------------
(* The claims about LLMClient._call_llm, under SpecClient *)

\* the k-th attempt of a frame, counted from 1, is attempt number k - 1
RotationModel(k) == models[((k - 1) % Len(models)) + 1]

C1_State ==
    LET c == direct.call IN
    /\ Len(c.tried) <= 6
    /\ CallActive(c) \/ c.state \in {"returned", "raised"} => Len(c.tried) = c.attempt + 1
    /\ \A k \in 1..Len(c.tried) : c.tried[k] = RotationModel(k)
    /\ c.state = "returned" => Len(c.errs) = Len(c.tried) - 1

C1_Step ==
    LET c == direct.call
        d == direct'.call
    IN  /\ d.tried # c.tried =>
            /\ d.tried = Append(c.tried, RotationModel(Len(c.tried) + 1))
            /\ Len(c.errs) = Len(c.tried)
            /\ c.state # "returned"
        /\ c.state = "returned" => d = c

\* C1: with a client, the attempts of one _call_llm call are made in the order
\* 0, 1, ..., each attempt i with models[i mod len(models)], each new attempt
\* only after all earlier ones failed, none after a successful one, and never
\* more than 6.
C1_AttemptsRotateInOrder == []C1_State /\ [][C1_Step]_vars

\* the sixth attempt succeeds, on a list of two models that was walked three times
C1_Witness ==
    /\ direct.call.state = "returned"
    /\ Len(direct.call.tried) = 6
    /\ Len(models) = 2
    /\ direct.call.tried[6] = models[2]

\* the base delays of the five waits, in seconds
BaseDelays == <<2, 4, 8, 16, 32>>

C2_State ==
    LET c == direct.call IN
    /\ c.sleeps = Min(Len(c.errs), 5)
    /\ c.state = "sleeping" =>
          /\ c.attempt \in 0..4
          /\ Len(c.errs) = c.attempt + 1
          /\ c.delay >= BaseDelays[c.attempt + 1] * JitterSteps
          /\ c.delay <= (BaseDelays[c.attempt + 1] + 1) * JitterSteps
    /\ c.state = "returned" => c.sleeps = Len(c.tried) - 1
    /\ c.state = "raised" => c.sleeps = 5

C2_Step ==
    LET c == direct.call
        d == direct'.call
    IN  /\ d.sleeps # c.sleeps =>
            d.sleeps = c.sleeps + 1 /\ c.state = "inflight" /\ d.state = "sleeping"
        /\ d.tried # c.tried /\ c.tried # <<>> => c.state = "sleeping"
        /\ c.state = "sleeping" => d.state \in {"sleeping", "inflight"}
        /\ c.state \in {"returned", "raised"} => d.sleeps = c.sleeps

\* C2: every failed attempt i in 0..4 is followed by exactly one wait before
\* attempt i+1, of 2*2^i seconds plus a jitter in [0, 1], whatever the error
\* is; a successful attempt and the failed sixth attempt are followed by none,
\* so k failures then a success make k waits and six failures make 5.
C2_BackoffAfterEachFailure == []C2_State /\ [][C2_Step]_vars

\* the wait after the failed attempt 4, on a rate-limit error, after an
\* earlier error of the other kind
C2_Witness ==
    /\ direct.call.state = "sleeping"
    /\ direct.call.attempt = 4
    /\ direct.call.errs[5] = ERR_RATE_LIMIT
    /\ direct.call.errs[1] = ERR_TIMEOUT
    /\ direct.call.delay >= 32 * JitterSteps

\* C3: when all 6 attempts fail the call raises the error of the sixth
\* attempt; the call ends by returning only when an attempt succeeded, and by
\* raising only when six attempts failed.
C3_RaisesLastError ==
    LET c == direct.call IN
    /\ c.state = "raised" =>
          /\ Len(c.errs) = 6
          /\ Len(c.tried) = 6
          /\ c.raised = c.errs[6]
    /\ c.state = "returned" => Len(c.tried) = Len(c.errs) + 1 /\ c.raised = ""
    /\ direct.st = "done" /\ client => c.state \in {"returned", "raised"}
    /\ Len(c.errs) = 6 => c.state = "raised"

\* six failures whose last error differs from the first
C3_Witness ==
    /\ direct.call.state = "raised"
    /\ direct.call.errs[1] = ERR_RATE_LIMIT
    /\ direct.call.errs[6] = ERR_TIMEOUT
    /\ direct.call.raised = ERR_TIMEOUT

----------------------------------------------------------------------------
(* The claims about the two public methods of LLMClient *)

FallbackSummaryText(n) ==
    "Found " \o ToString(n) \o " security issues that require attention."

FallbackRemedyText(service) ==
    CASE service = "s3" -> "Review and remediate S3 security configurations."
      [] service = "ec2" -> "Review and remediate EC2 security configurations."
      [] service = "iam" -> "Review and remediate IAM security configurations."
      [] service = "rds" -> "Review and remediate RDS security configurations."

\* the number of failing findings of a list
FailCount(fs) == Cardinality({k \in 1..Len(fs) : fs[k].status = "FAIL"})

\* C4 (SpecTask): an exhausted _call_llm is not propagated by summarize_issues
\* or generate_commands: the group gets the summary and remedy of the
\* no-credential mode for the same arguments, the action item gets the
\* built-in fallback commands for the group's service and resource ids, the
\* task does not fail and its group and action item are in the response.
C4_ExhaustionDegradesToFallback ==
    \A i \in Tasks :
        LET rec == task[i]
            fs == Grouped[i].findings
        IN  /\ rec.sum.state = "raised" =>
                  /\ rec.exc = ""
                  /\ rec.group # <<>>
                  /\ rec.group[1].summary = FallbackSummaryText(FailCount(fs))
                  /\ rec.group[1].remedy = FallbackRemedyText(fs[1].service)
                  /\ <<PyStr(rec.group[1].summary), PyStr(rec.group[1].remedy)>>
                        = summarize_issues(NoClientFrame("summarize"), fs[1].service,
                                           FindingTexts(fs))
            /\ rec.cmd.state = "raised" =>
                  /\ rec.st = "done"
                  /\ rec.exc = ""
                  /\ rec.action # <<>>
                  /\ rec.action[1].commands
                        = generate_commands(NoClientFrame("commands"), fs[1].service,
                                            [k \in 1..Len(fs) |-> fs[k].resource_id])
            /\ response # <<>> /\ "raised" \in {rec.sum.state, rec.cmd.state} =>
                  /\ rec.group[1] \in Range(response[1].groups)
                  /\ rec.cmd.state = "raised" =>
                        rec.action[1] \in Range(response[1].action_items)

\* both calls of a task exhausted their retries and the response is built
C4_Witness ==
    /\ response # <<>>
    /\ \E i \in Tasks :
          /\ task[i].sum.state = "raised"
          /\ task[i].cmd.state = "raised"
          /\ task[i].action[1].commands # <<>>

\* C5 (SpecClient): without a credential a call makes no provider attempt and
\* no wait and returns at once; the summary is the fixed sentence with the
\* number of snippets, the remedy the fixed sentence with the service name,
\* both non-empty; the command list is empty for every service but s3 and ec2.
C5_NoCredentialFallback ==
    ~client =>
        /\ direct.call.tried = <<>>
        /\ direct.call.errs = <<>>
        /\ direct.call.sleeps = 0
        /\ errors_left = 6
        /\ direct.st \in {"ready", "done"}
        /\ direct.st = "done" /\ direct.op = "summarize" =>
              /\ direct.summary = PyStr(FallbackSummaryText(Len(direct.finding_texts)))
              /\ direct.remedy = PyStr(FallbackRemedyText(direct.service))
              /\ direct.summary.s # "" /\ direct.remedy.s # ""
        /\ direct.st = "done" /\ direct.op = "commands" =>
              /\ direct.service \notin {"s3", "ec2"} => direct.commands = <<>>
              /\ direct.service = "ec2" => Len(direct.commands) = 1
              /\ direct.service = "s3" =>
                    Len(direct.commands) = Min(Len(direct.resource_ids), 3)
              /\ \A k \in 1..Len(direct.commands) : direct.commands[k] # ""

\* without a credential, commands for four buckets: three are returned
C5_Witness ==
    /\ ~client
    /\ direct.st = "done"
    /\ direct.op = "commands"
    /\ direct.service = "s3"
    /\ Len(direct.resource_ids) = 4
    /\ Len(direct.commands) = 3

\* C6 (SpecClient), as claimed: a response that is no JSON, or JSON without
\* the expected fields, ends the call without another attempt; summarize_issues
\* returns (text, "") for a text that is no JSON (the text as received or as
\* found inside the fence) and "" for each missing field otherwise;
\* generate_commands returns []; the fallback templates are never returned.
C6_MalformedNeverFallsBack ==
    direct.st = "done" /\ direct.call.state = "returned" =>
        LET c == direct.call
            inner == StripCodeFence(ContentOrEmptyObject(c.content))
            parsed == json_loads(Join(Strip(inner)))
        IN  /\ Len(c.tried) = Len(c.errs) + 1
            /\ direct.op = "summarize" /\ parsed.type = "invalid" =>
                  /\ direct.summary \in {PyStr(Join(c.content)), PyStr(Join(inner))}
                  /\ direct.remedy = PyStr("")
            /\ direct.op = "summarize" /\ parsed.type # "invalid"
                  /\ parsed.summary = Absent => direct.summary = PyStr("")
            /\ direct.op = "summarize" /\ parsed.type # "invalid"
                  /\ parsed.remedy = Absent => direct.remedy = PyStr("")
            /\ direct.op = "commands"
                  /\ (parsed.type = "invalid" \/ parsed.commands = Absent) =>
                        direct.commands = <<>>

----------------------------------------------------------------------------
(* The claims about SummarizeFindings and its worker pool *)

\* the tasks a worker is executing, and those inside a provider call or a
\* backoff wait
RunningTasks == {i \in Tasks : task[i].st = "running"}
CallingTasks ==
    {i \in Tasks : {task[i].sum.state, task[i].cmd.state} \cap {"inflight", "sleeping"} # {}}
SleepingTasks ==
    {i \in Tasks : "sleeping" \in {task[i].sum.state, task[i].cmd.state}}

C7_State ==
    /\ Cardinality(RunningTasks) <= 3
    /\ Cardinality(CallingTasks) <= 3
    /\ CallingTasks \subseteq RunningTasks
    /\ Len(task) = submitted
    /\ submitted <= Len(Grouped)
    /\ \A i \in Tasks : task[i].key = Grouped[i].key
    /\ \A i, j \in Tasks : i # j => task[i].key # task[j].key
    /\ response # <<>> => Len(task) = Len(Grouped)

C7_Step ==
    \A i \in Tasks :
        /\ i \in SleepingTasks => task'[i].st = "running"
        /\ task[i].st = "pending" /\ task'[i].st # "pending" =>
              Cardinality(RunningTasks) < 3

\* C7 (Spec): at most 3 tasks are running and at most 3 provider calls or
\* backoff waits are in progress, each inside a running task; the tasks are
\* the groups, one each, in grouped order; a task that is backing off is still
\* running after the step, and a queued task starts only while fewer than 3
\* tasks are running.
C7_AtMostThreeRunning == []C7_State /\ [][C7_Step]_vars

\* three tasks run, one of them in a backoff wait, and a fourth is queued
C7_Witness ==
    /\ Cardinality(RunningTasks) = 3
    /\ SleepingTasks # {}
    /\ \E i \in Tasks : task[i].st = "pending"

C8_State ==
    response # <<>> =>
        /\ Len(task) = Len(Grouped)
        /\ \A i \in Tasks : task[i].st = "done"
        /\ \A i \in Tasks : task[i].st \notin {"pending", "running"}
        /\ CallingTasks = {}

C8_Step ==
    /\ Len(task') >= Len(task)
    /\ \A i \in Tasks :
          /\ task'[i].key = task[i].key
          /\ task[i].st = "running" => task'[i].st \in {"running", "done"}
          /\ task[i].st = "done" =>
                /\ task'[i].st = "done"
                /\ task'[i].exc = task[i].exc
                /\ task'[i].group = task[i].group
                /\ task'[i].action = task[i].action
    /\ response # <<>> => task' = task /\ response' = response

\* C8 (Spec): when the response exists every group has a task and every task
\* is done (returned or raised), none pending or running; a started task stays
\* running until it is done, no task is removed, and a finished task keeps
\* its outcome.
C8_ResponseAfterAllTasks == []C8_State /\ [][C8_Step]_vars

\* the response of a request with four groups, one of whose tasks raised
C8_Witness ==
    /\ response # <<>>
    /\ Len(task) = 4
    /\ \E i \in Tasks : task[i].exc # ""
    /\ \E i \in Tasks : task[i].exc = "" /\ task[i].sum.errs # <<>>

\* the number of entries of a list that belong to a group
CountIn(list, group_key) ==
    Cardinality({k \in 1..Len(list) : list[k].group_id = group_key})

\* C9 (Spec): a task that raised contributes no group and no action item; a
\* task that returned contributes, once collected, its group exactly once and
\* its action item exactly once if it has one; the response carries exactly
\* these lists and the risk summary over all findings of the request, also
\* those of the omitted group (its passed count is that of the request).
C9_RaisingGroupOmitted ==
    /\ \A i \in Tasks :
          LET rec == task[i] IN
          /\ rec.exc # "" =>
                /\ CountIn(finding_groups, rec.key) = 0
                /\ CountIn(action_items, rec.key) = 0
          /\ rec.exc = "" /\ rec.collected =>
                /\ CountIn(finding_groups, rec.key) = 1
                /\ rec.group[1] \in Range(finding_groups)
                /\ CountIn(action_items, rec.key) = Len(rec.action)
                /\ rec.action # <<>> => rec.action[1] \in Range(action_items)
          /\ ~rec.collected =>
                /\ CountIn(finding_groups, rec.key) = 0
                /\ CountIn(action_items, rec.key) = 0
    /\ response # <<>> =>
          /\ \A i \in Tasks : task[i].collected
          /\ response[1].groups = finding_groups
          /\ response[1].action_items = action_items
          /\ Len(response[1].groups) = Cardinality({i \in Tasks : task[i].exc = ""})
          /\ response[1].risk_summary.passed_count
                = Cardinality({k \in 1..Len(findings) : findings[k].status = "PASS"})

\* a response without the group whose task raised, with the groups and the
\* action items of its two siblings, collected in the reverse of grouped order
C9_Witness ==
    /\ response # <<>>
    /\ Len(task) = 3
    /\ task[1].exc # ""
    /\ task[2].exc = "" /\ task[2].action # <<>>
    /\ task[3].exc = "" /\ task[3].action # <<>>
    /\ response[1].groups = <<task[3].group[1], task[2].group[1]>>
    /\ response[1].action_items = <<task[3].action[1], task[2].action[1]>>

\* C10 (Spec), as claimed: summarize is invoked only for a group with a failing
\* member and only if remediation was requested, and before command
\* generation; without remediation no client call is made and every summary
\* and remedy is empty.
C10_SummarizeOnlyWithRemediation ==
    \A i \in Tasks :
        LET rec == task[i] IN
        /\ rec.sum.op # "none" =>
              FailCount(Grouped[i].findings) > 0 /\ include_remediation
        /\ rec.cmd.op # "none" => rec.sum.op # "none" /\ ~CallActive(rec.sum)
        /\ ~include_remediation =>
              /\ rec.sum.op = "none"
              /\ rec.cmd.op = "none"
              /\ rec.group # <<>> =>
                    rec.group[1].summary = "" /\ rec.group[1].remedy = ""

\* the text a FindingGroup field holds for a value given to its constructor
FieldText(v) == IF v.t = "str" THEN v.s ELSE ""

\* C10 (Spec), amended: summarize is invoked only for a group with a failing
\* member, and include_remediation does not gate it: once the task of a group
\* has started, summarize has been invoked for it exactly if the group has a
\* failing member.  Command generation is invoked only after the summarize
\* call of the group has finished and its group is built, and only for a
\* group with a failing member when remediation was requested; without
\* remediation there is no command-generation call and no action item.  A
\* group that is built has an empty summary and remedy if it has no failing
\* member, and otherwise the summary and remedy its summarize step returned
\* (the texts of the provider's answer, or the fallback texts if the call was
\* not made), whether or not remediation was requested;
\* a task that raises had a failing member and a returned summarize call,
\* and builds no group, makes no command-generation call and has no action
\* item.
C10_SummarizeForFailingGroups ==
    \A i \in Tasks :
        LET rec == task[i]
            failing == FailCount(Grouped[i].findings) > 0
            returned == summarize_issues(rec.sum, SplitKey(rec.key)[1],
                                         FindingTexts(Grouped[i].findings))
        IN  /\ rec.sum.op # "none" => failing
            /\ rec.st # "pending" => (rec.sum.op = "summarize" <=> failing)
            /\ rec.cmd.op # "none" =>
                  /\ failing /\ include_remediation
                  /\ rec.sum.op = "summarize" /\ CallFinished(rec.sum)
                  /\ rec.group # <<>>
            /\ ~include_remediation => rec.cmd.op = "none" /\ rec.action = <<>>
            /\ rec.group # <<>> /\ ~failing =>
                  rec.group[1].summary = "" /\ rec.group[1].remedy = ""
            /\ rec.group # <<>> /\ failing =>
                  /\ CallFinished(rec.sum)
                  /\ rec.group[1].summary = FieldText(returned[1])
                  /\ rec.group[1].remedy = FieldText(returned[2])
                  /\ IF rec.sum.state = "returned"
                     THEN rec.group[1].summary = "S" /\ rec.group[1].remedy = "R"
                     ELSE /\ rec.group[1].summary
                              = FallbackSummaryText(FailCount(Grouped[i].findings))
                          /\ rec.group[1].remedy
                              = FallbackRemedyText(rec.group[1].service)
            /\ rec.exc # "" =>
                  /\ failing /\ rec.sum.state = "returned"
                  /\ rec.group = <<>> /\ rec.cmd.op = "none" /\ rec.action = <<>>

\* remediation is not requested, and the provider has written the summary
\* of a failing group that is in the response without an action item
C10_Witness ==
    /\ ~include_remediation
    /\ response # <<>>
    /\ \E i \in Tasks :
          /\ task[i].sum.state = "returned"
          /\ task[i].group # <<>>
          /\ task[i].group[1].summary # ""
          /\ task[i].group[1] \in Range(response[1].groups)
          /\ task[i].cmd.op = "none"
          /\ task[i].action = <<>>

----------------------------------------------------------------------------
(* The claims about the groups and action items of a report *)

\* the positions of the request's findings that are mapped to a group key
Members(group_key) ==
    {j \in 1..Len(findings) :
        findings[j].service \o ":" \o findings[j].check_id = group_key}
FailingMembers(group_key) ==
    {j \in Members(group_key) : findings[j].status = "FAIL"}

ActionItemsMatch(groups, items) ==
    /\ \A k \in 1..Len(groups) :
          CountIn(items, groups[k].group_id)
            = IF FailingMembers(groups[k].group_id) # {} /\ include_remediation
              THEN 1 ELSE 0
    /\ \A k \in 1..Len(items) :
          /\ CountIn(items, items[k].group_id) = 1
          /\ CountIn(groups, items[k].group_id) = 1

\* C11 (SpecEnrich): a group of the report has an action item exactly if it
\* has a failing member and remediation was requested, whatever the provider
\* did (answered, failed every attempt, answered with malformed text); no
\* group has two action items and every action item belongs to a group of
\* the report.
C11_ActionItemIffFailingAndRequested ==
    /\ ActionItemsMatch(finding_groups, action_items)
    /\ response # <<>> => ActionItemsMatch(response[1].groups, response[1].action_items)

\* a report whose action item was built although the provider answered the
\* command prompt with prose, after the summary call had failed every attempt
C11_Witness ==
    /\ response # <<>>
    /\ Len(response[1].action_items) = 1
    /\ response[1].action_items[1].commands = <<>>
    /\ task[1].sum.state = "raised"
    /\ task[1].cmd.state = "returned"
    /\ task[1].cmd.content = <<T_PROSE>>

\* the sum of finding_count over a list of groups
RECURSIVE SumFindingCount(_)
SumFindingCount(groups) ==
    IF groups = <<>> THEN 0
    ELSE groups[1].finding_count + SumFindingCount(Tail(groups))

RECURSIVE SumLen(_)
SumLen(grouped) ==
    IF grouped = <<>> THEN 0
    ELSE Len(grouped[1].findings) + SumLen(Tail(grouped))

\* C12 (SpecReport): every finding of the request is in exactly one group,
\* the group of its key "service:check_id" (also for an empty check_id); a
\* group holds all findings of its key, in request order, so the group sizes
\* add up to the number of findings; in the report finding_count is the
\* number of findings of the group's key and the counts add up to the number
\* of findings.
C12_GroupingKeepsEveryFinding ==
    /\ \A j \in 1..Len(findings) :
          Cardinality({i \in 1..Len(Grouped) :
              Grouped[i].key = findings[j].service \o ":" \o findings[j].check_id}) = 1
    /\ \A i \in 1..Len(Grouped) :
          /\ Members(Grouped[i].key) # {}
          /\ Len(Grouped[i].findings) = Cardinality(Members(Grouped[i].key))
          /\ \A k \in 1..Len(Grouped[i].findings) :
                \E j \in Members(Grouped[i].key) :
                    /\ Grouped[i].findings[k] = findings[j]
                    /\ Cardinality({h \in Members(Grouped[i].key) : h < j}) = k - 1
    /\ SumLen(Grouped) = Len(findings)
    /\ \A k \in 1..Len(finding_groups) :
          finding_groups[k].finding_count = Cardinality(Members(finding_groups[k].group_id))
    /\ response # <<>> /\ (\A i \in Tasks : task[i].exc = "") =>
          /\ SumFindingCount(response[1].groups) = Len(findings)
          /\ \A k \in 1..Len(response[1].groups) :
                response[1].groups[k].finding_count
                    = Cardinality(Members(response[1].groups[k].group_id))

\* the report of three findings, two of them with an empty check_id and
\* grouped under the key "s3:"
C12_Witness ==
    /\ response # <<>>
    /\ Len(findings) = 3
    /\ Len(response[1].groups) = 2
    /\ \E k \in 1..2 :
          /\ response[1].groups[k].group_id = "s3:"
          /\ response[1].groups[k].finding_count = 2
    /\ SumFindingCount(response[1].groups) = 3

\* C13 (SpecReport), as claimed: two findings of a request are in the same
\* group exactly if they have the same service and the same check_id, also
\* for names that contain ":" or are empty.
C13_SameGroupIffSamePair ==
    \A j, h \in 1..Len(findings) :
        (\E i \in 1..Len(Grouped) :
            /\ findings[j] \in Range(Grouped[i].findings)
            /\ findings[h] \in Range(Grouped[i].findings))
        <=> /\ findings[j].service = findings[h].service
            /\ findings[j].check_id = findings[h].check_id

----------------------------------------------------------------------------
(* The claims about the score and the action of a group *)

\* the groups the tasks have built
BuiltGroups == {task[i].group[1] : i \in {j \in Tasks : task[j].group # <<>>}}

\* the highest severity among the members of a group, passing ones included
MemberMaxSeverity(group_key) ==
    CHOOSE v \in 0..4 :
        /\ \E j \in Members(group_key) : findings[j].severity = v
        /\ \A j \in Members(group_key) : findings[j].severity <= v

\* min(trunc(base * min(1 + 0.1 * (n - 1), 1.5)), 100), in hundredths
ClaimedScore(base, n) ==
    LET factor == IF 100 + 10 * (n - 1) < 150 THEN 100 + 10 * (n - 1) ELSE 150
        scaled == (base * factor) \div 100
    IN  IF scaled < 100 THEN scaled ELSE 100

\* C14 (SpecReport): the score of a group without a failing member is 0;
\* with n > 0 failing members and the maximum severity of all members LOW,
\* MEDIUM, HIGH or CRITICAL it is min(trunc(base * min(1 + 0.1 * (n - 1),
\* 1.5)), 100) with base 25, 50, 75 or 100; it is in 0..100, it is not less
\* than the score of a group with one failing member fewer and the same
\* maximum severity, and two failing HIGH findings give 82.
C14_GroupRiskScore ==
    \A g \in BuiltGroups :
        LET n == Cardinality(FailingMembers(g.group_id))
            ms == MemberMaxSeverity(g.group_id)
        IN  /\ g.risk_score \in 0..100
            /\ n = 0 => g.risk_score = 0
            /\ n > 0 /\ ms \in 1..4 => g.risk_score = ClaimedScore(25 * ms, n)
            /\ n > 0 => g.risk_score >=
                  _calculate_group_risk_score(UniformGroup(n - 1, ms, 0, ms), ms)
            /\ n = 2 /\ ms = 3 => g.risk_score = 82

\* seven failing MEDIUM findings: the factor is capped at 1.5 and the score
\* is 75
C14_Witness ==
    \E g \in BuiltGroups :
        /\ Cardinality(FailingMembers(g.group_id)) = 7
        /\ MemberMaxSeverity(g.group_id) = 2
        /\ g.risk_score = 75

\* C15 (SpecReport), as claimed: the score of a group is 0 exactly if the
\* group has no failing member, and a group without a failing member has no
\* recommended action.
C15_ScoreZeroIffNoFailing ==
    \A g \in BuiltGroups :
        /\ g.risk_score = 0 <=> FailingMembers(g.group_id) = {}
        /\ FailingMembers(g.group_id) = {} =>
              g.recommended_action = "ACTION_TYPE_UNSPECIFIED"

\* C16 (SpecReport): the recommended action of a group is none without a
\* failing member, and otherwise escalate for maximum severity CRITICAL,
\* alert for HIGH and suggest-fix for MEDIUM or LOW, the maximum taken over
\* all members; no other value occurs, and an action item carries the
\* recommended action of its group.
C16_RecommendedAction ==
    /\ \A g \in BuiltGroups :
          LET n == Cardinality(FailingMembers(g.group_id))
              ms == MemberMaxSeverity(g.group_id)
          IN  /\ g.recommended_action \in
                    {"ACTION_TYPE_UNSPECIFIED", "ACTION_TYPE_ESCALATE",
                     "ACTION_TYPE_ALERT", "ACTION_TYPE_SUGGEST_FIX"}
              /\ n = 0 => g.recommended_action = "ACTION_TYPE_UNSPECIFIED"
              /\ n > 0 /\ ms = 4 => g.recommended_action = "ACTION_TYPE_ESCALATE"
              /\ n > 0 /\ ms = 3 => g.recommended_action = "ACTION_TYPE_ALERT"
              /\ n > 0 /\ ms \in {1, 2} =>
                    g.recommended_action = "ACTION_TYPE_SUGGEST_FIX"
    /\ \A i \in Tasks :
          task[i].action # <<>> =>
              task[i].action[1].action_type = task[i].group[1].recommended_action
    /\ response # <<>> =>
          \A k \in 1..Len(response[1].action_items) :
              \E h \in 1..Len(response[1].groups) :
                  /\ response[1].groups[h].group_id = response[1].action_items[k].group_id
                  /\ response[1].groups[h].recommended_action
                        = response[1].action_items[k].action_type

\* a report with the action item of a group of three failing MEDIUM
\* findings: suggest-fix
C16_Witness ==
    /\ response # <<>>
    /\ Len(response[1].action_items) = 1
    /\ response[1].action_items[1].action_type = "ACTION_TYPE_SUGGEST_FIX"
    /\ Cardinality(FailingMembers(response[1].groups[1].group_id)) = 3
    /\ MemberMaxSeverity(response[1].groups[1].group_id) = 2

----------------------------------------------------------------------------
(* The claims about the risk summary *)

\* the positions of the request's findings with a status, and with a status
\* and a severity
WithStatus(status) == {j \in 1..Len(findings) : findings[j].status = status}
Failing(severity) == {j \in WithStatus("FAIL") : findings[j].severity = severity}

\* C17 (SpecReport): the risk level of the summary is CRITICAL if a CRITICAL
\* finding of the request fails, otherwise HIGH if a HIGH finding fails,
\* otherwise MEDIUM if a MEDIUM finding fails, and LOW otherwise, in
\* particular when no finding fails; it is determined by the failing findings
\* alone.
C17_RiskLevelIsHighestFailingBand ==
    response # <<>> =>
        response[1].risk_summary.risk_level =
            IF Failing(4) # {} THEN "CRITICAL"
            ELSE IF Failing(3) # {} THEN "HIGH"
            ELSE IF Failing(2) # {} THEN "MEDIUM"
            ELSE "LOW"

\* a passing CRITICAL finding beside a failing LOW one: the level is LOW
C17_Witness ==
    /\ response # <<>>
    /\ \E j \in WithStatus("PASS") : findings[j].severity = 4
    /\ Failing(1) # {}
    /\ WithStatus("FAIL") = Failing(1)
    /\ response[1].risk_summary.risk_level = "LOW"

\* C18 (SpecReport), as claimed: the counts of the summary are the numbers
\* of failing findings of the request of severity CRITICAL, HIGH, MEDIUM and
\* LOW, passed_count is the number of passing findings, and overall_score is
\* min((critical * 100 + high * 75 + medium * 50 + low * 25) div
\* max(total_failed, 1), 100); groups, completion order and dropped groups
\* play no part.
C18_RiskSummaryFromAllFindings ==
    response # <<>> =>
        LET rs == response[1].risk_summary
            critical == Cardinality(Failing(4))
            high == Cardinality(Failing(3))
            medium == Cardinality(Failing(2))
            low == Cardinality(Failing(1))
            total_failed == critical + high + medium + low
            quotient == (critical * 100 + high * 75 + medium * 50 + low * 25)
                            \div (IF total_failed > 1 THEN total_failed ELSE 1)
        IN  /\ rs.critical_count = critical
            /\ rs.high_count = high
            /\ rs.medium_count = medium
            /\ rs.low_count = low
            /\ rs.passed_count = Cardinality(WithStatus("PASS"))
            /\ rs.overall_score = IF quotient < 100 THEN quotient ELSE 100

\* C19 (SpecReport), as claimed: for an empty request no task is submitted,
\* the report has no group and no action item, every count and the score are
\* 0, the level is LOW and the text is "All 0 security checks passed."; when
\* no finding fails the text says that all N checks passed, N the number of
\* findings.
C19_AllPassedTextShort ==
    response # <<>> /\ WithStatus("FAIL") = {} =>
        /\ response[1].risk_summary.summary_text
              = "All " \o ToString(Len(findings)) \o " security checks passed."
        /\ findings = <<>> =>
              /\ task = <<>> /\ submitted = 0
              /\ response[1].groups = <<>> /\ response[1].action_items = <<>>
              /\ response[1].risk_summary.overall_score = 0
              /\ response[1].risk_summary.risk_level = "LOW"

\* C19 (SpecReport), amended: for an empty request no task is submitted, the
\* report has no group and no action item, every count and the score are 0,
\* the level is LOW and the text is "All 0 security checks passed. No issues
\* detected."; when no finding fails the text is "All N security checks
\* passed. No issues detected." with N the number of passing findings.
C19_AllPassedText ==
    response # <<>> /\ WithStatus("FAIL") = {} =>
        LET rs == response[1].risk_summary IN
        /\ rs.summary_text
              = "All " \o ToString(Cardinality(WithStatus("PASS")))
                \o " security checks passed. No issues detected."
        /\ rs.overall_score = 0
        /\ rs.risk_level = "LOW"
        /\ rs.critical_count = 0 /\ rs.high_count = 0
        /\ rs.medium_count = 0 /\ rs.low_count = 0
        /\ findings = <<>> =>
              /\ task = <<>> /\ submitted = 0
              /\ finding_groups = <<>> /\ action_items = <<>>
              /\ response[1].groups = <<>> /\ response[1].action_items = <<>>
              /\ rs.passed_count = 0
              /\ rs.summary_text = "All 0 security checks passed. No issues detected."

\* the report of the empty request
C19_Witness ==
    /\ findings = <<>>
    /\ response # <<>>
    /\ response[1].groups = <<>>
    /\ response[1].risk_summary.summary_text
          = "All 0 security checks passed. No issues detected."

----------------------------------------------------------------------------
(* The claim about the order of the report *)

\* the position of a group in a list of groups
PositionIn(groups, group_key) ==
    CHOOSE k \in 1..Len(groups) : groups[k].group_id = group_key

\* the position in the request of the first finding of a key
FirstSeen(group_key) ==
    CHOOSE j \in Members(group_key) : \A h \in Members(group_key) : j <= h

OrderedReport(groups, items) ==
    /\ \A k, l \in 1..Len(groups) : k # l => groups[k].group_id # groups[l].group_id
    /\ \A k \in 1..Len(groups) :
          \E i \in 1..Len(Grouped) : Grouped[i].key = groups[k].group_id
    /\ \A k, l \in 1..Len(items) :
          k < l => PositionIn(groups, items[k].group_id)
                     < PositionIn(groups, items[l].group_id)

C20_State ==
    /\ \A i \in Tasks : task[i].key = Grouped[i].key
    /\ \A i, j \in 1..Len(Grouped) :
          i < j => FirstSeen(Grouped[i].key) < FirstSeen(Grouped[j].key)
    /\ OrderedReport(finding_groups, action_items)
    /\ response # <<>> =>
          /\ response[1].groups = finding_groups
          /\ response[1].action_items = action_items

C20_Step ==
    \/ /\ finding_groups' = finding_groups
       /\ action_items' = action_items
    \/ \E i \in Tasks :
          /\ ~task[i].collected /\ task'[i].collected
          /\ task[i].st = "done"
          /\ task[i].exc = ""
          /\ task[i].group # <<>>
          /\ finding_groups' = finding_groups \o task[i].group
          /\ action_items' = action_items \o task[i].action
          /\ Len(task[i].action) <= 1

\* C20 (Spec): tasks are submitted in first-seen-key order; each collected
\* task that returned puts its group, and its action item if it has one, at
\* the end of the lists, so the lists are in collection order; the groups of
\* the report are distinct groups of the request, and the action items are
\* in the order of their groups.
C20_CompletionOrder == []C20_State /\ [][C20_Step]_vars

\* a report of four groups in the reverse of the order of submission, with
\* the action items in that order too
C20_Witness ==
    /\ response # <<>>
    /\ Len(task) = 4
    /\ Len(response[1].groups) = 4
    /\ \A k \in 1..4 : response[1].groups[k].group_id = task[5 - k].key
    /\ Len(response[1].action_items) = 4
    /\ \A k \in 1..4 : response[1].action_items[k].group_id = task[5 - k].key

----------------------------------------------------------------------------
(* The claims about isolation, termination and the two severity views *)

\* the tasks whose record differs between the two states of a step
ChangedTasks == {i \in Tasks : task'[i] # task[i]}

\* every result a task holds is made of its own group's findings
C21_State ==
    /\ \A i \in Tasks :
          LET rec == task[i]
              own == Grouped[i].findings
          IN  /\ rec.key = Grouped[i].key
              /\ rec.group # <<>> =>
                    /\ rec.group[1].group_id = rec.key
                    /\ rec.group[1].finding_count = Len(own)
                    /\ rec.group[1].resource_ids
                          = [k \in 1..Len(own) |-> own[k].resource_id]
                    /\ rec.group[1].description = own[1].description
              /\ rec.action # <<>> =>
                    /\ rec.group # <<>>
                    /\ rec.action[1].group_id = rec.key
                    /\ rec.action[1].title = "Fix: " \o rec.group[1].title
    /\ Len(finding_groups) = Cardinality({i \in Tasks : task[i].collected /\ task[i].exc = ""})
    /\ Len(action_items)
          = Cardinality({i \in Tasks : task[i].collected /\ task[i].action # <<>>})
    /\ \A i \in Tasks :
          task[i].collected /\ task[i].exc = "" =>
              /\ \E k \in 1..Len(finding_groups) : finding_groups[k] = task[i].group[1]
              /\ task[i].action # <<>> =>
                    \E k \in 1..Len(action_items) : action_items[k] = task[i].action[1]

\* a step changes the record of at most one task; a worker's step leaves the
\* result lists alone; the lists change only in a step of the request thread
\* that collects one finished task and changes nothing else of its record
C21_Step ==
    /\ Cardinality(ChangedTasks) <= 1
    /\ Len(task') > Len(task) => ChangedTasks = {}
    /\ \A i \in ChangedTasks :
          \/ /\ task'[i] = [task[i] EXCEPT !.collected = TRUE]
             /\ ~task[i].collected
             /\ task[i].st = "done"
             /\ finding_groups' = finding_groups
                    \o (IF task[i].exc = "" THEN task[i].group ELSE <<>>)
             /\ action_items' = action_items
                    \o (IF task[i].exc = "" THEN task[i].action ELSE <<>>)
          \/ /\ task'[i].collected = task[i].collected
             /\ task'[i].key = task[i].key
             /\ finding_groups' = finding_groups
             /\ action_items' = action_items
    /\ ChangedTasks = {} =>
          finding_groups' = finding_groups /\ action_items' = action_items
    /\ findings' = findings
    /\ include_remediation' = include_remediation
    /\ client' = client /\ models' = models

\* C21 (Spec): a task's group and action item are made of the findings of its
\* own group; a step of a worker changes the record of that one task and
\* nothing of the result lists or of the request; the lists change only when
\* the request thread collects one finished task, by that task's results;
\* so the lists hold the results of the collected tasks that returned, each
\* once and under its own group id.
C21_TasksShareNoState == []C21_State /\ [][C21_Step]_vars

\* three tasks inside provider calls at once, a fourth done, nothing
\* collected yet
C21_Witness ==
    /\ Len(task) = 4
    /\ Cardinality(CallingTasks) = 3
    /\ \E i \in Tasks : task[i].st = "done" /\ ~task[i].collected
    /\ finding_groups = <<>>

\* the provider attempts and the backoff waits of a task
Attempts(rec) == Len(rec.sum.tried) + Len(rec.cmd.tried)
Waits(rec) == rec.sum.sleeps + rec.cmd.sleeps

RECURSIVE TotalAttempts(_)
TotalAttempts(recs) ==
    IF recs = <<>> THEN 0 ELSE Attempts(recs[1]) + TotalAttempts(Tail(recs))

C22_State ==
    /\ \A i \in Tasks :
          LET rec == task[i] IN
          /\ Len(rec.sum.tried) <= 6
          /\ Len(rec.cmd.tried) <= 6
          /\ Attempts(rec) <= 12
          /\ rec.sum.sleeps <= 5 /\ rec.cmd.sleeps <= 5
          /\ Waits(rec) <= 10
          /\ rec.cmd.tried # <<>> =>
                rec.sum.state \in {"returned", "raised"}
          /\ FailingMembers(rec.key) = {} => Attempts(rec) = 0 /\ Waits(rec) = 0
          /\ ~client => Attempts(rec) = 0 /\ Waits(rec) = 0
    /\ TotalAttempts(task)
          <= 12 * Cardinality({i \in 1..Len(Grouped) : FailingMembers(Grouped[i].key) # {}})

\* C22 (FairSpecPool): if the threads keep running and every provider call
\* returns or fails, the request returns a response, whether it has one
\* group or several, a task waiting for a worker or a task that raises; a
\* task makes at most 6 attempts for the summary and then, the summary call
\* over, at most 6 for the commands, with at most 5 waits each; a group
\* without failing member makes none; the request makes at most 12 attempts
\* per group with a failing member.
C22_RequestTerminates == []C22_State /\ <>(response # <<>>)

\* the response of a request of two groups, each of whose tasks made 12
\* attempts and 10 waits
C22_Witness ==
    /\ response # <<>>
    /\ Len(task) = 2
    /\ \A i \in Tasks : Attempts(task[i]) = 12 /\ Waits(task[i]) = 10
    /\ TotalAttempts(task) = 24

\* the severity band named by a risk level
LevelSeverity(risk_level) ==
    CASE risk_level = "LOW" -> 1
      [] risk_level = "MEDIUM" -> 2
      [] risk_level = "HIGH" -> 3
      [] risk_level = "CRITICAL" -> 4

\* C23 (SpecReport), as claimed: in a report the severity of every group
\* with a failing member, and of every action item, is not higher than the
\* risk level of the summary.
C23_GroupSeverityWithinRiskLevel ==
    response # <<>> =>
        LET level == LevelSeverity(response[1].risk_summary.risk_level) IN
        /\ \A k \in 1..Len(response[1].groups) :
              FailingMembers(response[1].groups[k].group_id) # {} =>
                  response[1].groups[k].severity <= level
        /\ \A k \in 1..Len(response[1].action_items) :
              response[1].action_items[k].severity <= level

=============================================================================
